---- MODULE Spec2Model ----
(***************************************************************************)
(* Model of the PERT calculator: the pure estimator functions of           *)
(* pert.service.ts (meanPert, sigma, percentile, round2, calculate,        *)
(* horasParaDias, diasParaHoras) and the PertCalculatorComponent that      *)
(* calls them (form, delayed submit callback, history, localStorage).      *)
(*                                                                         *)
(* A TypeScript `number` is an IEEE-754 binary64 value.  The model keeps   *)
(* that arithmetic: every +, -, *, / of the source is the exact result     *)
(* rounded to the nearest representable value, ties to even.  A finite     *)
(* number is the record [k |-> "fin", s, m, e] of value (-1)^s * m * 2^e,  *)
(* m an odd natural number of at most 53 bits held as a little-endian      *)
(* sequence of 15-bit limbs (or m = 0 for zero).  Infinity and NaN are     *)
(* the kinds "inf" and "nan".  The sign of zero is not kept: no operation  *)
(* of the program divides by a computed zero other than lambda + 2, which  *)
(* is never -0, and -0 === 0.                                              *)
(***************************************************************************)
EXTENDS Integers, Sequences, FiniteSets, TLC

(***************************************************************************)
(* With1(v, F) is F(v) with v evaluated once, before F is applied (and     *)
(* With2 for two values): an operator's argument is otherwise evaluated    *)
(* again at each place the operator uses it.                               *)
(***************************************************************************)
With1(v, F(_)) == CHOOSE r \in {F(x) : x \in {v}} : TRUE
With2(u, v, F(_, _)) == CHOOSE r \in {F(x, y) : x \in {u}, y \in {v}} : TRUE

(***************************************************************************)
(* Natural numbers of any size: little-endian limbs, no leading zero limb. *)
(***************************************************************************)
LimbBits == 15
Base == 2^LimbBits

Max2(a, b) == IF a >= b THEN a ELSE b

Digit(a, i) == IF i <= Len(a) THEN a[i] ELSE 0

RECURSIVE TrimTo(_, _)
TrimTo(a, n) ==
    IF n = 0 THEN <<>>
    ELSE IF a[n] = 0 THEN TrimTo(a, n - 1) ELSE SubSeq(a, 1, n)

Trim(a) == With1(a, LAMBDA x : TrimTo(x, Len(x)))

RECURSIVE NatLimbs(_)
NatLimbs(n) == IF n = 0 THEN <<>> ELSE <<n % Base>> \o NatLimbs(n \div Base)

NatToBig(n) == With1(n, NatLimbs)

RECURSIVE Zeros(_)
Zeros(n) == IF n = 0 THEN <<>> ELSE <<0>> \o Zeros(n - 1)

\* the limbs of a + b + c from limb i on
RECURSIVE AddFrom(_, _, _, _)
AddFrom(a, b, i, c) ==
    IF i > Len(a) /\ i > Len(b) THEN (IF c = 0 THEN <<>> ELSE <<c>>)
    ELSE With1(Digit(a, i) + Digit(b, i) + c,
               LAMBDA t : <<t % Base>> \o AddFrom(a, b, i + 1, t \div Base))

BAdd(a, b) == With2(a, b, LAMBDA x, y : AddFrom(x, y, 1, 0))

\* the limbs of a - b - c from limb i on, for a >= b + c (not yet trimmed)
RECURSIVE SubFrom(_, _, _, _)
SubFrom(a, b, i, c) ==
    IF i > Len(a) THEN <<>>
    ELSE With1(a[i] - Digit(b, i) - c,
               LAMBDA t : <<(t + Base) % Base>>
                            \o SubFrom(a, b, i + 1, IF t < 0 THEN 1 ELSE 0))

BSub(a, b) == With2(a, b, LAMBDA x, y : Trim(SubFrom(x, y, 1, 0)))

\* -1, 0, 1 as a < b, a = b, a > b
RECURSIVE CmpFrom(_, _, _)
CmpFrom(a, b, i) ==
    IF i = 0 THEN 0
    ELSE IF a[i] < b[i] THEN -1
    ELSE IF a[i] > b[i] THEN 1
    ELSE CmpFrom(a, b, i - 1)

BCmp(a, b) ==
    With2(a, b, LAMBDA x, y :
        IF Len(x) < Len(y) THEN -1
        ELSE IF Len(x) > Len(y) THEN 1
        ELSE CmpFrom(x, y, Len(x)))

\* the limbs of a * k + c from limb i on, k one limb
RECURSIVE MulSmallFrom(_, _, _, _)
MulSmallFrom(a, k, i, c) ==
    IF i > Len(a) THEN (IF c = 0 THEN <<>> ELSE <<c>>)
    ELSE With1(a[i] * k + c,
               LAMBDA t : <<t % Base>> \o MulSmallFrom(a, k, i + 1, t \div Base))

BMulSmall(a, k) ==
    With2(a, k, LAMBDA x, y : IF y = 0 THEN <<>> ELSE MulSmallFrom(x, y, 1, 0))

\* a * Base^n
ShiftLimbs(a, n) ==
    With1(a, LAMBDA x : IF x = <<>> THEN <<>> ELSE Zeros(n) \o x)

\* a times the limbs of b from limb j on
RECURSIVE MulFrom(_, _, _)
MulFrom(a, b, j) ==
    IF j > Len(b) THEN <<>>
    ELSE BAdd(BMulSmall(a, b[j]), ShiftLimbs(MulFrom(a, b, j + 1), 1))

BMul(a, b) ==
    With2(a, b, LAMBDA x, y : IF x = <<>> THEN <<>> ELSE MulFrom(x, y, 1))

\* a divided by a one-limb k > 0, from the top limb down: [q, r]
RECURSIVE DivSmallFrom(_, _, _, _)
DivSmallFrom(a, k, i, r) ==
    IF i = 0 THEN [q |-> <<>>, r |-> r]
    ELSE With1(r * Base + a[i], LAMBDA t :
            With1(DivSmallFrom(a, k, i - 1, t % k), LAMBDA rest :
                [q |-> rest.q \o <<t \div k>>, r |-> rest.r]))

BDivSmall(a, k) ==
    With2(a, k, LAMBDA x, y :
        With1(DivSmallFrom(x, y, Len(x), 0), LAMBDA d :
            [q |-> Trim(d.q), r |-> NatToBig(d.r)]))

\* a * 2^n and floor(a / 2^n)
BShl(a, n) ==
    With2(a, n, LAMBDA x, y :
        IF x = <<>> THEN <<>>
        ELSE Zeros(y \div LimbBits) \o BMulSmall(x, 2^(y % LimbBits)))

BShr(a, n) ==
    With2(a, n, LAMBDA x, y :
        IF y \div LimbBits >= Len(x) THEN <<>>
        ELSE BDivSmall(SubSeq(x, (y \div LimbBits) + 1, Len(x)),
                       2^(y % LimbBits)).q)

RECURSIVE SmallBitLen(_)
SmallBitLen(n) == IF n = 0 THEN 0 ELSE 1 + SmallBitLen(n \div 2)

BitLen(a) ==
    With1(a, LAMBDA x :
        IF x = <<>> THEN 0
        ELSE LimbBits * (Len(x) - 1) + SmallBitLen(x[Len(x)]))

RECURSIVE SmallTrailingZeros(_)
SmallTrailingZeros(n) == IF n % 2 = 1 THEN 0 ELSE 1 + SmallTrailingZeros(n \div 2)

\* the number of trailing zero bits of a > 0, from limb i on
RECURSIVE TrailingZerosFrom(_, _)
TrailingZerosFrom(a, i) ==
    IF a[i] = 0 THEN LimbBits + TrailingZerosFrom(a, i + 1)
    ELSE SmallTrailingZeros(a[i])

BIsOdd(a) == With1(a, LAMBDA x : x # <<>> /\ x[1] % 2 = 1)

One == <<1>>

\* the largest d in lo..hi with d * b <= r, by bisection
RECURSIVE FindDigit(_, _, _, _)
FindDigit(r, b, lo, hi) ==
    IF lo = hi THEN lo
    ELSE With1((lo + hi + 1) \div 2, LAMBDA mid :
            IF BCmp(BMulSmall(b, mid), r) <= 0
            THEN FindDigit(r, b, mid, hi)
            ELSE FindDigit(r, b, lo, mid - 1))

\* floor(a / b) and a mod b for b > 0 of any size: long division, one limb
\* of a at a time from the top; [q, r] for the limbs of a from limb i on
RECURSIVE DivFrom(_, _, _)
DivFrom(a, b, i) ==
    IF i > Len(a) THEN [q |-> <<>>, r |-> <<>>]
    ELSE With1(DivFrom(a, b, i + 1), LAMBDA h :
            With1(Trim(<<a[i]>> \o h.r), LAMBDA r2 :
                With1(FindDigit(r2, b, 0, Base - 1), LAMBDA d :
                    [q |-> Trim(<<d>> \o h.q),
                     r |-> BSub(r2, BMulSmall(b, d))])))

BDivMod(a, b) ==
    With2(a, b, LAMBDA x, y :
        IF Len(y) = 1 THEN BDivSmall(x, y[1]) ELSE DivFrom(x, y, 1))

(***************************************************************************)
(* IEEE-754 binary64, the TypeScript `number`.                             *)
(***************************************************************************)
Precision == 53
MinExponent == -1074
MaxExponent == 1024

Zero == [k |-> "fin", s |-> 0, m |-> <<>>, e |-> 0]
NaN == [k |-> "nan", s |-> 0, m |-> <<>>, e |-> 0]
Inf(s) == [k |-> "inf", s |-> s, m |-> <<>>, e |-> 0]

IsFinite(x) == x.k = "fin"
IsNumber(x) == x.k \in {"fin", "inf", "nan"}
IsZero(x) == x.k = "fin" /\ x.m = <<>>

\* (-1)^s * m * 2^e with the trailing zero bits of m moved into e
Canon(s, m, e) ==
    With2(m, e, LAMBDA mv, ev :
        IF mv = <<>> THEN Zero
        ELSE With1(TrailingZerosFrom(mv, 1), LAMBDA tz :
                [k |-> "fin", s |-> s, m |-> BShr(mv, tz), e |-> ev + tz]))

\* n / 2^sh rounded to the nearest integer, ties to even
RoundShift(n, sh) ==
    With2(n, sh, LAMBDA nv, shv :
        With1(BShr(nv, shv), LAMBDA q :
            With1(BCmp(BSub(nv, BShl(q, shv)), BShl(One, shv - 1)), LAMBDA c :
                IF c > 0 \/ (c = 0 /\ BIsOdd(q)) THEN BAdd(q, One) ELSE q)))

\* the binary64 nearest to the exact value (-1)^s * n * 2^e
RoundToDouble(s, n, e) ==
    With2(n, e, LAMBDA nv, ev :
        IF nv = <<>> THEN Zero
        ELSE With1(Max2(Max2(BitLen(nv) - Precision, MinExponent - ev), 0),
                LAMBDA sh :
                    With1(IF sh > 0 THEN RoundShift(nv, sh) ELSE nv, LAMBDA m :
                        IF m = <<>> THEN Zero
                        ELSE IF BitLen(m) + ev + sh > MaxExponent THEN Inf(s)
                        ELSE Canon(s, m, ev + sh))))

\* the exact sum of two finite values, as [s, m, e] (not rounded)
ExactAdd(x, y) ==
    IF x.m = <<>> THEN [s |-> y.s, m |-> y.m, e |-> y.e]
    ELSE IF y.m = <<>> THEN [s |-> x.s, m |-> x.m, e |-> x.e]
    ELSE With1(IF x.e <= y.e THEN x.e ELSE y.e, LAMBDA e :
            With2(BShl(x.m, x.e - e), BShl(y.m, y.e - e), LAMBDA a, b :
                IF x.s = y.s THEN [s |-> x.s, m |-> BAdd(a, b), e |-> e]
                ELSE IF BCmp(a, b) >= 0
                     THEN [s |-> x.s, m |-> BSub(a, b), e |-> e]
                     ELSE [s |-> y.s, m |-> BSub(b, a), e |-> e]))

FNeg(x) ==
    With1(x, LAMBDA v :
        IF v.k = "nan" \/ IsZero(v) THEN v ELSE [v EXCEPT !.s = 1 - v.s])

\* the exponent of the first power of two above |x|, x finite and not zero
Top(x) == x.e + BitLen(x.m)

\* x + y; an addend below a quarter of the other's last place is absorbed
FAdd(x, y) ==
    With2(x, y, LAMBDA a, b :
        IF a.k = "nan" \/ b.k = "nan" THEN NaN
        ELSE IF a.k = "inf" THEN (IF b.k = "inf" /\ b.s # a.s THEN NaN ELSE a)
        ELSE IF b.k = "inf" THEN b
        ELSE IF IsZero(a) THEN b
        ELSE IF IsZero(b) THEN a
        ELSE With2(Top(a), Top(b), LAMBDA ta, tb :
                IF tb + Precision + 3 <= ta THEN a
                ELSE IF ta + Precision + 3 <= tb THEN b
                ELSE With1(ExactAdd(a, b), LAMBDA d : RoundToDouble(d.s, d.m, d.e))))

\* x - y
FSub(x, y) == FAdd(x, FNeg(y))

\* x * y
FMul(x, y) ==
    With2(x, y, LAMBDA a, b :
        IF a.k = "nan" \/ b.k = "nan" THEN NaN
        ELSE IF a.k = "inf" \/ b.k = "inf"
             THEN (IF IsZero(a) \/ IsZero(b) THEN NaN ELSE Inf((a.s + b.s) % 2))
        ELSE RoundToDouble((a.s + b.s) % 2, BMul(a.m, b.m), a.e + b.e))

\* the quotient of two finite values other than zero: the quotient of the
\* mantissas to Precision + 2 bits and more, then a last bit that says
\* whether anything is left
DivFinite(a, b) ==
    With1(Max2(0, Precision + 2 + BitLen(b.m) - BitLen(a.m)), LAMBDA sh :
        With1(BDivMod(BShl(a.m, sh), b.m), LAMBDA d :
            IF d.r = <<>>
            THEN RoundToDouble((a.s + b.s) % 2, d.q, a.e - b.e - sh)
            ELSE RoundToDouble((a.s + b.s) % 2, BAdd(BShl(d.q, 1), One),
                               a.e - b.e - sh - 1)))

\* x / y
FDiv(x, y) ==
    With2(x, y, LAMBDA a, b :
        IF a.k = "nan" \/ b.k = "nan" THEN NaN
        ELSE IF a.k = "inf" THEN (IF b.k = "inf" THEN NaN ELSE Inf((a.s + b.s) % 2))
        ELSE IF b.k = "inf" THEN Zero
        ELSE IF IsZero(b) THEN (IF IsZero(a) THEN NaN ELSE Inf((a.s + b.s) % 2))
        ELSE IF IsZero(a) THEN Zero
        ELSE DivFinite(a, b))

\* -1, 0, 1 as x < y, x = y, x > y, for x and y not NaN
FCmp(x, y) ==
    With2(x, y, LAMBDA a, b :
        IF a.k = "inf" THEN (IF b.k = "inf" /\ b.s = a.s THEN 0
                             ELSE IF a.s = 0 THEN 1 ELSE -1)
        ELSE IF b.k = "inf" THEN (IF b.s = 0 THEN -1 ELSE 1)
        ELSE IF IsZero(a) THEN (IF IsZero(b) THEN 0 ELSE IF b.s = 0 THEN -1 ELSE 1)
        ELSE IF IsZero(b) \/ a.s # b.s THEN (IF a.s = 0 THEN 1 ELSE -1)
        ELSE With2(Top(a), Top(b), LAMBDA ta, tb :
                IF ta # tb THEN (IF (ta > tb) = (a.s = 0) THEN 1 ELSE -1)
                ELSE With1(ExactAdd(a, FNeg(b)), LAMBDA d :
                        IF d.m = <<>> THEN 0 ELSE IF d.s = 0 THEN 1 ELSE -1)))

FLt(x, y) == With2(x, y, LAMBDA a, b : a.k # "nan" /\ b.k # "nan" /\ FCmp(a, b) < 0)
FLe(x, y) == With2(x, y, LAMBDA a, b : a.k # "nan" /\ b.k # "nan" /\ FCmp(a, b) <= 0)
FGt(x, y) == FLt(y, x)
FGe(x, y) == FLe(y, x)

\* Math.round: floor(x + 1/2) computed exactly
MathRound(x) ==
    With1(x, LAMBDA v :
        IF v.k # "fin" \/ v.e >= 0 THEN v
        ELSE IF Top(v) < 0 THEN Zero
        ELSE With1(BShl(One, (0 - v.e) - 1), LAMBDA half :
                IF v.s = 0
                THEN RoundToDouble(0, BShr(BAdd(v.m, half), 0 - v.e), 0)
                ELSE IF BCmp(v.m, half) <= 0 THEN Zero
                ELSE RoundToDouble(1,
                         BShr(BAdd(BSub(v.m, half), BSub(BShl(half, 1), One)),
                              0 - v.e), 0)))

\* the number an integer literal denotes
FromInt(i) ==
    With1(i, LAMBDA n :
        RoundToDouble(IF n < 0 THEN 1 ELSE 0, NatToBig(IF n < 0 THEN 0 - n ELSE n), 0))

\* the number the decimal literal n/d denotes (d a power of ten): the
\* nearest binary64, which is what the correctly rounded quotient is
Dec(n, d) == FDiv(FromInt(n), FromInt(d))

(***************************************************************************)
(* JavaScript values that are not numbers, and the conversions the         *)
(* arithmetic operators and Number() apply to them.                        *)
(***************************************************************************)
Undefined == [k |-> "undef", s |-> 0, m |-> <<>>, e |-> 0]
Null == [k |-> "null", s |-> 0, m |-> <<>>, e |-> 0]
EmptyString == [k |-> "empty", s |-> 0, m |-> <<>>, e |-> 0]

\* ToNumber: Number(null) = 0, Number('') = 0, Number(undefined) = NaN
ToNumber(v) ==
    IF IsNumber(v) THEN v
    ELSE IF v.k = "undef" THEN NaN
    ELSE Zero

\* ToBoolean: 0, NaN, null, undefined and '' are falsy
Truthy(v) == IsNumber(v) /\ v.k # "nan" /\ ~IsZero(v)

(***************************************************************************)
(* pert.service.ts                                                         *)
(***************************************************************************)
Percentis == {80, 85, 90, 95}
\* Z_SCORES with the digits of the 85th entry transposed (1.306 for 1.036)
Z_SCORES_Transposed ==
    [p \in Percentis |->
        CASE p = 80 -> Dec(8416, 10000)
          [] p = 85 -> Dec(1306, 1000)
          [] p = 90 -> Dec(12816, 10000)
          [] p = 95 -> Dec(16449, 10000)]

Z_SCORES ==
    [p \in Percentis |->
        CASE p = 80 -> Dec(8416, 10000)
          [] p = 85 -> Dec(1036, 1000)
          [] p = 90 -> Dec(12816, 10000)
          [] p = 95 -> Dec(16449, 10000)]

DefaultLambda == FromInt(4)
\* meanPert dividing by lambda + 1 instead of lambda + 2
meanPertShortDivisor(O, M, P, lambda) ==
    LET l == IF lambda.k = "undef" THEN DefaultLambda ELSE ToNumber(lambda)
    IN  FDiv(FAdd(FAdd(O, FMul(l, M)), P), FAdd(l, FromInt(1)))

meanPert(O, M, P, lambda) ==
    LET l == IF lambda.k = "undef" THEN DefaultLambda ELSE ToNumber(lambda)
    IN  FDiv(FAdd(FAdd(O, FMul(l, M)), P), FAdd(l, FromInt(2)))

\* sigma of the sum instead of the difference
sigmaOfSum(O, P) == FDiv(FAdd(P, O), FromInt(6))

sigma(O, P) == FDiv(FSub(P, O), FromInt(6))

percentile(mean, sigmaValue, p) == FAdd(mean, FMul(Z_SCORES[p], sigmaValue))

round2(n) == FDiv(MathRound(FMul(n, FromInt(100))), FromInt(100))
\* calculate whose P85 tests for 80 in percentis
calculateP85Tests80(input) ==
    With2(meanPert(input.O, input.M, input.P,
                   IF input.lambda.k = "undef" THEN DefaultLambda ELSE input.lambda),
          sigma(input.O, input.P),
          LAMBDA media, sigmaValue :
            [media   |-> round2(media),
             sigma   |-> round2(sigmaValue),
             valores |->
                [P80 |-> IF 80 \in input.percentis
                         THEN round2(percentile(media, sigmaValue, 80)) ELSE Undefined,
                 P85 |-> IF 80 \in input.percentis
                         THEN round2(percentile(media, sigmaValue, 85)) ELSE Undefined,
                 P90 |-> IF 90 \in input.percentis
                         THEN round2(percentile(media, sigmaValue, 90)) ELSE Undefined,
                 P95 |-> IF 95 \in input.percentis
                         THEN round2(percentile(media, sigmaValue, 95)) ELSE Undefined]])

calculate(input) ==
    With2(meanPert(input.O, input.M, input.P,
                   IF input.lambda.k = "undef" THEN DefaultLambda ELSE input.lambda),
          sigma(input.O, input.P),
          LAMBDA media, sigmaValue :
            [media   |-> round2(media),
             sigma   |-> round2(sigmaValue),
             valores |->
                [P80 |-> IF 80 \in input.percentis
                         THEN round2(percentile(media, sigmaValue, 80)) ELSE Undefined,
                 P85 |-> IF 85 \in input.percentis
                         THEN round2(percentile(media, sigmaValue, 85)) ELSE Undefined,
                 P90 |-> IF 90 \in input.percentis
                         THEN round2(percentile(media, sigmaValue, 90)) ELSE Undefined,
                 P95 |-> IF 95 \in input.percentis
                         THEN round2(percentile(media, sigmaValue, 95)) ELSE Undefined]])
\* horasParaDias rounding to one decimal place
horasParaDiasOneDecimal(horas) ==
    FDiv(MathRound(FMul(FDiv(horas, FromInt(8)), FromInt(10))), FromInt(10))

horasParaDias(horas) == round2(FDiv(horas, FromInt(8)))

diasParaHoras(dias) == round2(FMul(dias, FromInt(8)))

(***************************************************************************)
(* State.  args and ret are a caller of the estimator: the call it is      *)
(* about to make and what the call returned.  The rest is the              *)
(* PertCalculatorComponent and the browser's localStorage.                 *)
(***************************************************************************)
VARIABLES args, ret, initialized, pertForm, result, isLoading, history,
          localStorage, pending, now, last

vars == <<args, ret, initialized, pertForm, result, isLoading, history,
          localStorage, pending, now, last>>

component == <<initialized, pertForm, result, isLoading, history,
               localStorage, pending, now, last>>

(***************************************************************************)
(* Bounds of the estimator's inputs.                                       *)
(***************************************************************************)
MaxK == 2
MaxLambda == 2
MaxHourCents == 40

\* 0, 0.045, 0.09, ...: decimal inputs, among them halfway cases of round2
Values == {Dec(45 * k, 1000) : k \in 0..MaxK}
SignedValues == Values \cup {FNeg(v) : v \in Values}
\* lambda omitted (the default applies), 1, 2, ...
Lambdas == {Undefined} \cup {FromInt(l) : l \in 1..MaxLambda}
\* 0.00, 0.01, ... hours and their negatives, and the 40 hours of a week
Hours == {Dec(n, 100) : n \in 0..MaxHourCents}
            \cup {FNeg(Dec(n, 100)) : n \in 0..MaxHourCents}
            \cup {FromInt(40)}

PertInputs ==
    {[O |-> o, M |-> m, P |-> p, lambda |-> l, percentis |-> ps] :
        o \in Values, m \in Values, p \in Values, l \in Lambdas,
        ps \in SUBSET Percentis}

\* O = M = P = 5, lambda = 4, all four percentiles requested
FiveFiveFive ==
    [O |-> FromInt(5), M |-> FromInt(5), P |-> FromInt(5),
     lambda |-> DefaultLambda, percentis |-> Percentis]

NoCall == [fn |-> "none"]
NoArgs == [fn |-> "none"]

\* the calls a caller of the estimator can be about to make
Calls ==
    {[fn |-> "calculate", input |-> i] : i \in PertInputs \cup {FiveFiveFive}}
    \cup {[fn |-> "meanPert", O |-> o, M |-> m, P |-> p, lambda |-> l] :
            o \in Values, m \in Values, p \in Values, l \in Lambdas}
    \cup {[fn |-> "percentile", mean |-> mn, sigma |-> sg] :
            mn \in SignedValues, sg \in SignedValues}
    \cup {[fn |-> "horasParaDias", horas |-> h] : h \in Hours}

\* the component as constructed, before ngOnInit
Constructed(stored) ==
    /\ initialized = FALSE
    /\ pertForm = Undefined
    /\ result = Null
    /\ isLoading = FALSE
    /\ history = [kind |-> "list", items |-> <<>>]
    /\ localStorage = stored
    /\ pending = 0
    /\ now = 0
    /\ last = [op |-> "constructor"]

Absent == [kind |-> "absent"]

InitEstimator ==
    /\ args \in Calls
    /\ ret = NoCall
    /\ Constructed(Absent)

CallCalculate ==
    /\ args.fn = "calculate" /\ ret = NoCall
    /\ ret' = [fn |-> "calculate", val |-> calculate(args.input)]
    /\ UNCHANGED <<args, component>>

CallMeanPert ==
    /\ args.fn = "meanPert" /\ ret = NoCall
    /\ ret' = [fn |-> "meanPert",
               val |-> meanPert(args.O, args.M, args.P, args.lambda)]
    /\ UNCHANGED <<args, component>>

\* percentile for each of the four percentiles of the same mean and sigma
CallPercentile ==
    /\ args.fn = "percentile" /\ ret = NoCall
    /\ ret' = [fn |-> "percentile",
               val |-> [p \in Percentis |-> percentile(args.mean, args.sigma, p)]]
    /\ UNCHANGED <<args, component>>

CallHorasParaDias ==
    /\ args.fn = "horasParaDias" /\ ret = NoCall
    /\ ret' = [fn |-> "horasParaDias", val |-> horasParaDias(args.horas)]
    /\ UNCHANGED <<args, component>>

\* the days that horasParaDias returned, converted back
CallDiasParaHoras ==
    /\ ret.fn = "horasParaDias"
    /\ ret' = [fn |-> "diasParaHoras", dias |-> ret.val,
               val |-> diasParaHoras(ret.val)]
    /\ UNCHANGED <<args, component>>

NextEstimator ==
    \/ CallCalculate
    \/ CallMeanPert
    \/ CallPercentile
    \/ CallHorasParaDias
    \/ CallDiasParaHoras

SpecEstimator == InitEstimator /\ [][NextEstimator]_vars

(***************************************************************************)
(* PertCalculatorComponent: the reactive form and its validators.          *)
(***************************************************************************)
\* fb.group({O: '', M: '', P: '', unidade: 'horas', percentilSelecionado: 90,
\*           lambda: 4})
InitialForm ==
    [O |-> EmptyString, M |-> EmptyString, P |-> EmptyString,
     unidade |-> "horas", percentilSelecionado |-> 90, lambda |-> DefaultLambda]

\* Validators.required: no error for a value that is not empty
required(v) == v \notin {Undefined, Null, EmptyString}

\* Validators.min(m): an error only for a number below m
min(m, v) == ~IsNumber(v) \/ v.k = "nan" \/ ~FLt(v, m)

\* pertValidator: TRUE for { pertRule: true }, FALSE for null
pertValidator(form) ==
    /\ Truthy(form.O) /\ Truthy(form.M) /\ Truthy(form.P)
    /\ (FGt(form.O, form.M) \/ FGt(form.M, form.P))

\* the bounds of Validators.min for O, M and P, and for lambda
MinEstimate == Dec(1, 100)
MinLambda == FromInt(1)

\* pertForm.valid: every control passes its validators and the group its own
valid(form) ==
    /\ \A f \in {"O", "M", "P"} : required(form[f]) /\ min(MinEstimate, form[f])
    /\ required(form.lambda) /\ min(MinLambda, form.lambda)
    /\ ~pertValidator(form)

(***************************************************************************)
(* The history and its storage.  A stored text is absent, empty, not JSON, *)
(* or the JSON text of a value; a value is a list of items or something    *)
(* else; an item is an entry or something else.                            *)
(***************************************************************************)
EmptyText == [kind |-> "text", body |-> "empty"]
Garbage   == [kind |-> "text", body |-> "garbage"]
JsonText(v) == [kind |-> "text", body |-> "json", value |-> v]

List(items) == [kind |-> "list", items |-> items]
JsonObject  == [kind |-> "object"]

\* a number as JSON.stringify writes it and JSON.parse reads it back:
\* Infinity and NaN are written as null
JSONNumber(v) == IF IsNumber(v) /\ ~IsFinite(v) THEN Null ELSE v

IsEntry(item) == "createdAt" \in DOMAIN item

JSONItem(item) ==
    IF IsEntry(item)
    THEN [O |-> JSONNumber(item.O), M |-> JSONNumber(item.M), P |-> JSONNumber(item.P),
          unidade |-> item.unidade, lambda |-> JSONNumber(item.lambda),
          media |-> JSONNumber(item.media), sigma |-> JSONNumber(item.sigma),
          P90 |-> JSONNumber(item.P90), createdAt |-> item.createdAt]
    ELSE JSONNumber(item)

\* JSON.stringify(value)
JSONStringify(v) ==
    JsonText(IF v.kind = "list"
             THEN List([i \in DOMAIN v.items |-> JSONItem(v.items[i])])
             ELSE v)

\* JSON.parse(text): the value, or a SyntaxError
JSONParse(text) ==
    IF text.body = "json" THEN [ok |-> TRUE, value |-> text.value] ELSE [ok |-> FALSE]

\* the history after loadHistory, for what localStorage.getItem returned
loadHistory(saved, current) ==
    IF saved = Absent \/ saved = EmptyText THEN current
    ELSE IF JSONParse(saved).ok THEN JSONParse(saved).value
    ELSE current

\* localStorage after saveHistory
saveHistory(h) == JSONStringify(h)

\* entry.field, undefined for an item without it
Get(item, f) == IF f \in DOMAIN item THEN item[f] ELSE Undefined

(***************************************************************************)
(* PertCalculatorComponent: its handlers.  now counts the handlers that    *)
(* have run, and is the instant new Date() reads; last records the handler *)
(* that ran last and what it was given.                                    *)
(***************************************************************************)
MaxClock == 4
MaxPending == 1
MaxHistory == 3
MaxFormNumber == 2

\* 2^1023, about 8.99e307: a number whose multiples overflow
Huge == [k |-> "fin", s |-> 0, m |-> One, e |-> 1023]

\* what the user can put into O, M and P, and into lambda
FormNumbers == {Null} \cup {FromInt(n) : n \in 1..MaxFormNumber}
FormLambdas == {FromInt(0), DefaultLambda}

\* the input that the callback of onSubmit builds from the form's value
inputOf(form) ==
    [O |-> ToNumber(form.O), M |-> ToNumber(form.M), P |-> ToNumber(form.P),
     lambda |-> form.lambda, percentis |-> {form.percentilSelecionado}]

\* the entry that onSaveEntry builds
entryOf(form, res, createdAt) ==
    [O |-> ToNumber(form.O), M |-> ToNumber(form.M), P |-> ToNumber(form.P),
     unidade |-> form.unidade, lambda |-> form.lambda,
     media |-> res.media, sigma |-> res.sigma,
     P90 |-> IF Truthy(res.valores.P90) THEN res.valores.P90 ELSE Zero,
     createdAt |-> createdAt]

\* entries as an earlier session saved them: O = 1, M = 2, P = 2, and
\* O = M = P = Huge, whose media and P90, Infinity, were written as null
SavedEntry ==
    [O |-> FromInt(1), M |-> FromInt(2), P |-> FromInt(2), unidade |-> "horas",
     lambda |-> DefaultLambda, media |-> Dec(183, 100), sigma |-> Dec(17, 100),
     P90 |-> Dec(205, 100), createdAt |-> -2]
SavedHugeEntry ==
    [O |-> Huge, M |-> Huge, P |-> Huge, unidade |-> "horas",
     lambda |-> DefaultLambda, media |-> Null, sigma |-> Zero,
     P90 |-> Null, createdAt |-> -1]

\* what 'pertHistory' can hold when the component starts
StoredContents ==
    {Absent, EmptyText, Garbage,
     JsonText(JsonObject),
     JsonText(List(<<FromInt(7)>>)),
     JsonText(List(<<SavedEntry>>)),
     JsonText(List(<<SavedHugeEntry, SavedEntry>>))}

Init ==
    /\ args = NoArgs
    /\ ret = NoCall
    /\ \E stored \in StoredContents : Constructed(stored)

\* ngOnInit: initializeForm, loadHistory
NgOnInit ==
    /\ ~initialized
    /\ initialized' = TRUE
    /\ pertForm' = InitialForm
    /\ history' = loadHistory(localStorage, history)
    /\ last' = [op |-> "ngOnInit", saved |-> localStorage]
    /\ UNCHANGED <<args, ret, result, isLoading, localStorage, pending, now>>

\* a handler runs: the component is initialized and the clock moves on
Handler(op) ==
    /\ initialized
    /\ now < MaxClock
    /\ now' = now + 1
    /\ last' = op
    /\ UNCHANGED <<args, ret, initialized>>

\* the user changes O, M or P
EditEstimate ==
    /\ initialized
    /\ \E f \in {"O", "M", "P"}, v \in FormNumbers :
        /\ v # pertForm[f]
        /\ pertForm' = [pertForm EXCEPT ![f] = v]
        /\ Handler([op |-> "edit"])
        /\ UNCHANGED <<result, isLoading, history, localStorage, pending>>

\* the user changes lambda
EditLambda ==
    /\ initialized
    /\ \E v \in FormLambdas :
        /\ v # pertForm.lambda
        /\ pertForm' = [pertForm EXCEPT !.lambda = v]
        /\ Handler([op |-> "edit"])
        /\ UNCHANGED <<result, isLoading, history, localStorage, pending>>

\* the user selects another percentile
EditPercentil ==
    /\ initialized
    /\ \E p \in Percentis :
        /\ p # pertForm.percentilSelecionado
        /\ pertForm' = [pertForm EXCEPT !.percentilSelecionado = p]
        /\ Handler([op |-> "edit"])
        /\ UNCHANGED <<result, isLoading, history, localStorage, pending>>

\* the user selects the other unit
EditUnidade ==
    /\ initialized
    /\ \E u \in {"horas", "dias"} :
        /\ u # pertForm.unidade
        /\ pertForm' = [pertForm EXCEPT !.unidade = u]
        /\ Handler([op |-> "edit"])
        /\ UNCHANGED <<result, isLoading, history, localStorage, pending>>

\* onSubmit: for a valid form, isLoading and a callback 300 ms later
OnSubmit ==
    /\ initialized
    /\ valid(pertForm)
    /\ pending < MaxPending
    /\ isLoading' = TRUE
    /\ pending' = pending + 1
    /\ Handler([op |-> "onSubmit"])
    /\ UNCHANGED <<pertForm, result, history, localStorage>>

\* the callback of onSubmit: calculate of the form's value as it is now
SubmitCallback ==
    /\ pending > 0
    /\ pending' = pending - 1
    /\ result' = calculate(inputOf(pertForm))
    /\ isLoading' = FALSE
    /\ Handler([op |-> "callback", input |-> inputOf(pertForm)])
    /\ UNCHANGED <<pertForm, history, localStorage>>

\* onClear: the form reset, O, M and P null, and no result
OnClear ==
    /\ initialized
    /\ pertForm' = [O |-> Null, M |-> Null, P |-> Null, unidade |-> "horas",
                    percentilSelecionado |-> 90, lambda |-> DefaultLambda]
    /\ result' = Null
    /\ Handler([op |-> "onClear"])
    /\ UNCHANGED <<isLoading, history, localStorage, pending>>

\* onSaveEntry: with a result and a valid form, the entry of the form's
\* value and the result goes to the front of the history, which is stored;
\* unshift of a history that is not a list is a TypeError
OnSaveEntry ==
    /\ initialized
    /\ result # Null
    /\ valid(pertForm)
    /\ IF history.kind = "list"
       THEN /\ Len(history.items) < MaxHistory
            /\ history' = List(<<entryOf(pertForm, result, now)>> \o history.items)
            /\ localStorage' = saveHistory(history')
            /\ Handler([op |-> "onSaveEntry", threw |-> FALSE, before |-> history,
                        entry |-> entryOf(pertForm, result, now)])
       ELSE /\ UNCHANGED <<history, localStorage>>
            /\ Handler([op |-> "onSaveEntry", threw |-> TRUE])
    /\ UNCHANGED <<pertForm, result, isLoading, pending>>

\* the form after patchValue of an entry's O, M, P, unidade and lambda
patchValue(form, entry) ==
    [form EXCEPT !.O = Get(entry, "O"), !.M = Get(entry, "M"), !.P = Get(entry, "P"),
                 !.unidade = IF IsEntry(entry) THEN entry.unidade ELSE "undefined",
                 !.lambda = Get(entry, "lambda"),
                 !.percentilSelecionado = 90]

\* onReapplyEntry of the entry at index i - 1: patchValue, then onSubmit
OnReapplyEntry ==
    /\ initialized
    /\ history.kind = "list"
    /\ \E i \in DOMAIN history.items :
        /\ pertForm' = patchValue(pertForm, history.items[i])
        /\ IF valid(pertForm')
           THEN /\ pending < MaxPending
                /\ isLoading' = TRUE
                /\ pending' = pending + 1
           ELSE UNCHANGED <<isLoading, pending>>
        /\ Handler([op |-> "onReapplyEntry", index |-> i - 1])
    /\ UNCHANGED <<result, history, localStorage>>

\* a sequence without its element i
RemoveAt(seq, i) == SubSeq(seq, 1, i - 1) \o SubSeq(seq, i + 1, Len(seq))

\* onDeleteEntry of index i - 1: splice(index, 1), and the history is stored
OnDeleteEntry ==
    /\ initialized
    /\ history.kind = "list"
    /\ \E i \in DOMAIN history.items :
        /\ history' = List(RemoveAt(history.items, i))
        /\ localStorage' = saveHistory(history')
        /\ Handler([op |-> "onDeleteEntry", index |-> i - 1, before |-> history])
    /\ UNCHANGED <<pertForm, result, isLoading, pending>>

Next ==
    \/ NgOnInit
    \/ EditEstimate
    \/ EditLambda
    \/ EditPercentil
    \/ EditUnidade
    \/ OnSubmit
    \/ SubmitCallback
    \/ OnClear
    \/ OnSaveEntry
    \/ OnReapplyEntry
    \/ OnDeleteEntry

Spec == Init /\ [][Next]_vars

(***************************************************************************)
(* Exact comparisons of numbers, for stating the claims.                   *)
(***************************************************************************)
Label(p) == CASE p = 80 -> "P80" [] p = 85 -> "P85" [] p = 90 -> "P90" [] p = 95 -> "P95"

Abs(x) == [x EXCEPT !.s = 0]

\* x * 2^n, exactly
TimesPow2(x, n) == IF IsZero(x) THEN x ELSE [x EXCEPT !.e = @ + n]

\* x + y, exactly (not rounded to binary64)
ExactSum(x, y) ==
    With1(ExactAdd(x, y), LAMBDA d : [k |-> "fin", s |-> d.s, m |-> d.m, e |-> d.e])

\* the lambda a call uses
Effective(lambda) == IF lambda.k = "undef" THEN DefaultLambda ELSE lambda

(***************************************************************************)
(* Claims about the estimator, under SpecEstimator.                        *)
(***************************************************************************)

\* C1: calculate's P80, P85, P90 and P95 hold a value exactly when their
\* number is in percentis and are undefined otherwise; a value that is
\* present is round2(mean + z(p) * sigma) of the unrounded mean and sigma;
\* media and sigma are always present and are round2 of the unrounded ones.
C1_FieldsFollowPercentis ==
    ret.fn = "calculate" =>
        With2(meanPert(args.input.O, args.input.M, args.input.P, args.input.lambda),
              sigma(args.input.O, args.input.P),
              LAMBDA mean, sg :
                /\ \A p \in Percentis :
                      (ret.val.valores[Label(p)] # Undefined) <=> (p \in args.input.percentis)
                /\ \A p \in args.input.percentis :
                      ret.val.valores[Label(p)] = round2(FAdd(mean, FMul(Z_SCORES[p], sg)))
                /\ ret.val.media = round2(mean)
                /\ ret.val.sigma = round2(sg)
                /\ IsNumber(ret.val.media) /\ IsNumber(ret.val.sigma))

\* calculate returned with two of the four percentiles requested
C1_Witness ==
    /\ ret.fn = "calculate"
    /\ args.input.percentis = {80, 95}
    /\ FLt(args.input.O, args.input.M) /\ FLt(args.input.M, args.input.P)
    /\ ret.val.valores.P85 = Undefined
    /\ IsFinite(ret.val.valores.P95)

C3_PercentilesOrdered ==
    /\ (ret.fn = "percentile" /\ FGe(args.sigma, Zero))
        => /\ FGe(ret.val[95], ret.val[90])
           /\ FGe(ret.val[90], ret.val[85])
           /\ FGe(ret.val[85], ret.val[80])
    /\ (ret.fn = "calculate" /\ args.input.percentis = Percentis
            /\ FGe(sigma(args.input.O, args.input.P), Zero))
        => /\ FGe(ret.val.valores.P95, ret.val.valores.P90)
           /\ FGe(ret.val.valores.P90, ret.val.valores.P85)
           /\ FGe(ret.val.valores.P85, ret.val.valores.P80)

\* percentile returned for a sigma > 0, and the percentiles differ
C3_Witness ==
    /\ ret.fn = "percentile"
    /\ FGt(args.sigma, Zero)
    /\ FGt(ret.val[95], ret.val[90])
    /\ FGt(ret.val[85], ret.val[80])

WellFormed(stored) ==
    /\ stored.kind = "text"
    /\ stored.body = "json"
    /\ stored.value.kind = "list"
    /\ \A i \in DOMAIN stored.value.items : IsEntry(stored.value.items[i])

\* C7: when ngOnInit has loaded the history, stored 'pertHistory' content
\* that is not a well-formed list of history entries (unparsable text, or
\* JSON that is not a list of entries) has left the in-memory history the
\* empty list, and the load has not failed: ngOnInit completed.
C7_MalformedStorageLoadsEmpty ==
    (last.op = "ngOnInit" /\ ~WellFormed(last.saved))
    => (initialized /\ history = List(<<>>))

\* the list stored under 'pertHistory' is the in-memory list
PersistedIsInMemory ==
    /\ localStorage.kind = "text"
    /\ JSONParse(localStorage).ok
    /\ JSONParse(localStorage).value = history

\* C8: a successful onSaveEntry has put the new entry at index 0 and kept
\* the order of the earlier entries; onDeleteEntry(i), 0 <= i < length, has
\* removed exactly the entry at index i and kept the order of the rest; and
\* after each of them the list stored under 'pertHistory' equals the
\* in-memory list.
C8_NewestFirstAndPersisted ==
    /\ (last.op = "onSaveEntry" /\ ~last.threw)
        => /\ history = List(<<last.entry>> \o last.before.items)
           /\ PersistedIsInMemory
    /\ (last.op = "onDeleteEntry"
            /\ 0 <= last.index /\ last.index < Len(last.before.items))
        => /\ history = List(RemoveAt(last.before.items, last.index + 1))
           /\ PersistedIsInMemory

\* C9: every call of calculate by the component, the one in the delayed
\* callback of onSubmit, receives O, M and P that are positive numbers with
\* O <= M <= P, and a lambda >= 1: values that passed the form's validators.
C9_CalculateOnlyValidated ==
    last.op = "callback"
    => /\ FGt(last.input.O, Zero)
       /\ FLe(last.input.O, last.input.M)
       /\ FLe(last.input.M, last.input.P)
       /\ IsNumber(last.input.lambda)
       /\ FGe(last.input.lambda, FromInt(1))

\* C10: the media, sigma and P90 of every entry that onSaveEntry stores are
\* the media, sigma and P90 that calculate returns for that entry's O, M, P
\* and lambda with 90 requested.
C10_EntryIsSnapshot ==
    (last.op = "onSaveEntry" /\ ~last.threw)
    => With1(calculate([O |-> last.entry.O, M |-> last.entry.M, P |-> last.entry.P,
                        lambda |-> last.entry.lambda, percentis |-> {90}]),
             LAMBDA r : /\ last.entry.media = r.media
                        /\ last.entry.sigma = r.sigma
                        /\ last.entry.P90 = r.valores.P90)

====
